---- MODULE Spec2Model ----
(***************************************************************************)
(* NTLM v1 / v2 session state machines of go-ntlm (ntlm/ntlmv1.go,         *)
(* ntlm/ntlmv2.go): one client session and one server session of the same  *)
(* NTLM version, the parsed messages that travel between them, and the     *)
(* MAC engine.                                                             *)
(*                                                                         *)
(* Byte strings are symbolic terms: a tagged tuple <<tag, args...>>.  Two  *)
(* byte strings are equal exactly when their terms are equal (hashes and   *)
(* ciphers are collision free; the 32-bit CRC is not), RC4 is an           *)
(* involution under one key and stream position, and slicing undoes        *)
(* concatenation.                                                          *)
(***************************************************************************)
EXTENDS Integers, Sequences, FiniteSets, TLC

\* ------------------------------------------------------------------ bounds
\* AuthenticateMessage objects the client may allocate in one behaviour
MaxAuthMsgs == 2
\* Mac / VerifyMac calls in one behaviour
MaxMacOps == 2
\* Mac / VerifyMac calls explored while a side has not authenticated
MaxEarlyMacOps == 1

\* ------------------------------------------------------------ byte strings
\* a nil / empty byte slice
Nil == <<>>

zeroBytes(n) == <<"zero", n>>

\* the i-th value the random source can return for a request of n bytes
randomBytes(n, i) == <<"rnd", n, i>>

concat(parts) == <<"cat", parts>>

md4(b) == <<"md4", b>>

md5(b) == <<"md5", b>>

hmacMd5(key, b) == <<"hmac", key, b>>

des(key, b) == <<"des", key, b>>

\* DESL(key16, data8): three DES blocks under the thirds of the padded key
desL(key, b) == <<"desL", key, b>>

\* a message <<"msg", i, c>> is the i-th message, c its CRC-32 checksum
crc32(message) == <<"crc32", message[3]>>

\* little-endian 4 bytes of a sequence number
le32(seq) == <<"le32", seq>>

\* strings.ToUpper on the strings the model uses
ToUpper(s) ==
    CASE s = "Password" -> "PASSWORD"
      [] s = "password" -> "PASSWORD"
      [] s = "User" -> "USER"
      [] s = "Domain" -> "DOMAIN"
      [] OTHER -> s

\* UTF-16LE bytes of the concatenation of the given strings
utf16FromString(strs) == <<"utf16", strs>>

\* zeroPaddedBytes(bytes, 0, 14)[lo:hi] of an ASCII string
zeroPaddedBytes(s, lo, hi) == <<"ascii", s, lo, hi>>

RECURSIVE ByteLen(_)
RECURSIVE SumLen(_)
\* len(b) of a byte string
ByteLen(b) ==
    IF b = Nil THEN 0
    ELSE CASE b[1] = "zero" -> b[2]
           [] b[1] = "rnd" -> b[2]
           [] b[1] = "cat" -> SumLen(b[2])
           [] b[1] = "des" -> 8
           [] b[1] = "desL" -> 24
           [] b[1] = "crc32" -> 4
           [] b[1] = "le32" -> 4
           [] b[1] = "ascii" -> b[4] - b[3]
           [] b[1] = "slice" -> b[3]
           [] b[1] = "rc4" -> ByteLen(b[4])
           [] b[1] = "xor" -> 4
           [] b[1] = "seal" -> b[2]
           [] b[1] = "junk" -> b[2]
           [] OTHER -> 16

SumLen(parts) ==
    IF parts = <<>> THEN 0 ELSE ByteLen(Head(parts)) + SumLen(Tail(parts))

\* b[0:n]: the first n bytes; the first part of a concatenation when that
\* part is n bytes long
Prefix(b, n) ==
    IF ByteLen(b) = n THEN b
    ELSE IF b # Nil /\ b[1] = "cat" /\ b[2] # <<>> /\ ByteLen(b[2][1]) = n THEN b[2][1]
    ELSE <<"slice", b, n>>

\* ---------------------------------------------------------------- RC4
\* an RC4 stream state: the key it was initialised with and the number of
\* keystream bytes consumed; ok = FALSE is the nil *rc4.Cipher
NoHandle == [ok |-> FALSE, key |-> Nil, pos |-> 0]

\* rc4Init(key): crypto/rc4 rejects an empty key, the callers then hold nil
rc4Init(key) ==
    IF ByteLen(key) = 0 THEN NoHandle ELSE [ok |-> TRUE, key |-> key, pos |-> 0]

\* XOR of data with the keystream of `key` from position pos
Keystream(key, pos, data) ==
    IF data # Nil /\ data[1] = "rc4" /\ data[2] = key /\ data[3] = pos
    THEN data[4]
    ELSE <<"rc4", key, pos, data>>

\* rc4K(key, data): one-shot RC4, state discarded
rc4K(key, data) == Keystream(key, 0, data)

\* reinitSealingKey(key, seq): RC4 keyed with HMAC-MD5(key, LE32(seq))
reinitSealingKey(key, seq) == rc4Init(hmacMd5(key, le32(seq)))

\* ------------------------------------------------------------ flag words
\* a NegotiateFlags word is the set of the names of its set bits
KEY_EXCH == "NTLMSSP_NEGOTIATE_KEY_EXCH"

EXT_SEC == "NTLMSSP_NEGOTIATE_EXTENDED_SESSIONSECURITY"

DATAGRAM == "NTLMSSP_NEGOTIATE_DATAGRAM"

TARGET_INFO == "NTLMSSP_NEGOTIATE_TARGET_INFO"

NEG_128 == "NTLMSSP_NEGOTIATE_128"

NEG_56 == "NTLMSSP_NEGOTIATE_56"

LM_KEY == "NTLMSSP_NEGOTIATE_LM_KEY"

NON_NT_SESSION_KEY == "NTLMSSP_REQUEST_NON_NT_SESSION_KEY"

\* flag.IsSet(word)
IsSet(flag, word) == flag \in word

\* the flag word V2ServerSession.GenerateChallengeMessage composes
V2ChallengeFlags ==
    { KEY_EXCH, "NTLMSSP_NEGOTIATE_VERSION", EXT_SEC, TARGET_INFO,
      "NTLMSSP_NEGOTIATE_IDENTIFY", "NTLMSSP_NEGOTIATE_ALWAYS_SIGN",
      "NTLMSSP_NEGOTIATE_NTLM", DATAGRAM, "NTLMSSP_NEGOTIATE_SIGN",
      "NTLMSSP_REQUEST_TARGET", "NTLMSSP_NEGOTIATE_UNICODE", NEG_128 }

\* VersionStruct{6, 1, 7601, 15}; <<>> is a nil *VersionStruct
DefaultVersion == <<6, 1, 7601, 15>>

NoVersion == <<>>

\* ---------------------------------------------------------- key derivation
ntowfv1(passwd) == md4(utf16FromString(<<passwd>>))

lmowfv1(passwd) ==
    concat(<< des(zeroPaddedBytes(ToUpper(passwd), 0, 7), <<"KGS!@#$%">>),
              des(zeroPaddedBytes(ToUpper(passwd), 7, 14), <<"KGS!@#$%">>) >>)

ntowfv2(user, passwd, userDom) ==
    hmacMd5(md4(utf16FromString(<<passwd>>)), utf16FromString(<<ToUpper(user), userDom>>))

lmowfv2(user, passwd, userDom) == ntowfv2(user, passwd, userDom)

\* SIGNKEY: MD5(exported || side-specific magic constant)
signKey(flags, exported, side) ==
    md5(concat(<<exported, <<"signing magic", side>> >>))

\* SEALKEY: an MD5 over a 128/56/40-bit prefix and the side's magic constant
\* under extended session security, else the legacy 8-byte derivation
sealKey(flags, exported, side) ==
    IF IsSet(EXT_SEC, flags)
    THEN <<"seal", 16,
           IF IsSet(NEG_128, flags) THEN 128 ELSE IF IsSet(NEG_56, flags) THEN 56 ELSE 40,
           exported, side>>
    ELSE <<"seal", 8, IF IsSet(NEG_56, flags) THEN 56 ELSE 40, exported, "legacy">>

\* KXKEY of NTLMv1 without extended session security (MS-NLMP 3.4.5.1)
kxKey(flags, sessionBaseKey, lmChallengeResponse, serverChallenge, responseKeyLM) ==
    <<"kxkey", flags \cap {LM_KEY, NON_NT_SESSION_KEY}, sessionBaseKey,
      lmChallengeResponse, serverChallenge, responseKeyLM>>

\* ------------------------------------------------------- parsed messages
\* am.NtlmV2Response: the parsed NTLMv2 response blob; ok = FALSE is nil
NoV2Response ==
    [ok |-> FALSE, TimeStamp |-> Nil, ChallengeFromClient |-> Nil, AvPairs |-> Nil]

\* a nil *ChallengeMessage
NoChallengeMessage ==
    [ok |-> FALSE, NegotiateFlags |-> {}, ServerChallenge |-> Nil,
     TargetInfoPayload |-> Nil, Version |-> NoVersion]

\* no AuthenticateMessage: live = FALSE; id names the object (0: none yet)
NoAuthenticateMessage ==
    [live |-> FALSE, id |-> 0, NegotiateFlags |-> {}, LmChallengeResponse |-> Nil,
     NtChallengeResponseFields |-> Nil, DomainName |-> "", UserName |-> "",
     Workstation |-> "", EncryptedRandomSessionKey |-> Nil, Mic |-> Nil,
     Version |-> NoVersion, NtlmV2Response |-> NoV2Response]

\* am.ClientChallenge(): the client challenge of the NTLMv2 blob, else the
\* first 8 bytes of the LM response under extended session security
ClientChallenge(am) ==
    IF am.NtlmV2Response.ok THEN am.NtlmV2Response.ChallengeFromClient
    ELSE IF IsSet(EXT_SEC, am.NegotiateFlags) THEN Prefix(am.LmChallengeResponse, 8)
    ELSE Nil

\* ------------------------------------------------------------ SessionData
\* a freshly constructed session: every field holds its zero value
NewSession ==
    [ user |-> "", password |-> "", userDomain |-> "", workstation |-> "",
      NegotiateFlags |-> {},
      serverChallenge |-> Nil, clientChallenge |-> Nil,
      responseKeyNT |-> Nil, responseKeyLM |-> Nil,
      sessionBaseKey |-> Nil, keyExchangeKey |-> Nil,
      exportedSessionKey |-> Nil, encryptedRandomSessionKey |-> Nil,
      ntChallengeResponse |-> Nil, lmChallengeResponse |-> Nil,
      ClientSigningKey |-> Nil, ServerSigningKey |-> Nil,
      ClientSealingKey |-> Nil, ServerSealingKey |-> Nil,
      clientHandle |-> NoHandle, serverHandle |-> NoHandle,
      mic |-> Nil,
      negotiateMessage |-> "", challengeMessage |-> NoChallengeMessage,
      authenticateMessage |-> 0 ]

SetUserInfo(n, username, password, domain, workstation) ==
    [n EXCEPT !.user = username, !.password = password,
              !.userDomain = domain, !.workstation = workstation]

\* ------------------------------------------------- NTLMv1 shared methods
V1fetchResponseKeys(n) ==
    [n EXCEPT !.responseKeyLM = lmowfv1(n.password),
              !.responseKeyNT = ntowfv1(n.password)]

V1computeExpectedResponses(n) ==
    IF IsSet(EXT_SEC, n.NegotiateFlags)
    THEN [n EXCEPT
            !.ntChallengeResponse =
                desL(n.responseKeyNT,
                     Prefix(md5(concat(<<n.serverChallenge, n.clientChallenge>>)), 8)),
            !.lmChallengeResponse = concat(<<n.clientChallenge, zeroBytes(16)>>)]
    ELSE [n EXCEPT
            !.ntChallengeResponse = desL(n.responseKeyNT, n.serverChallenge),
            !.lmChallengeResponse = desL(n.responseKeyLM, n.serverChallenge)]

V1computeSessionBaseKey(n) == [n EXCEPT !.sessionBaseKey = md4(n.responseKeyNT)]

V1computeKeyExchangeKey(n) ==
    IF IsSet(EXT_SEC, n.NegotiateFlags)
    THEN [n EXCEPT !.keyExchangeKey =
            hmacMd5(n.sessionBaseKey,
                    concat(<<n.serverChallenge, Prefix(n.lmChallengeResponse, 8)>>))]
    ELSE [n EXCEPT !.keyExchangeKey =
            kxKey(n.NegotiateFlags, n.sessionBaseKey, n.lmChallengeResponse,
                  n.serverChallenge, n.responseKeyLM)]

V1calculateKeys(n) ==
    [n EXCEPT
       !.ClientSigningKey = signKey(n.NegotiateFlags, n.exportedSessionKey, "Client"),
       !.ServerSigningKey = signKey(n.NegotiateFlags, n.exportedSessionKey, "Server"),
       !.ClientSealingKey = sealKey(n.NegotiateFlags, n.exportedSessionKey, "Client"),
       !.ServerSealingKey = sealKey(n.NegotiateFlags, n.exportedSessionKey, "Server")]

\* ------------------------------------------------- NTLMv2 shared methods
V2fetchResponseKeys(n) ==
    [n EXCEPT !.responseKeyLM = lmowfv2(n.user, n.password, n.userDomain),
              !.responseKeyNT = ntowfv2(n.user, n.password, n.userDomain)]

\* temp of the NTLMv2 response: the client challenge blob
V2temp(timestamp, clientChallenge, avPairBytes) ==
    concat(<< <<"byte", 1>>, <<"byte", 1>>, zeroBytes(6), timestamp, clientChallenge,
              zeroBytes(4), avPairBytes, zeroBytes(4) >>)

V2computeExpectedResponses(n, timestamp, avPairBytes) ==
    LET temp == V2temp(timestamp, n.clientChallenge, avPairBytes)
        ntProofStr == hmacMd5(n.responseKeyNT, concat(<<n.serverChallenge, temp>>))
    IN [n EXCEPT
          !.ntChallengeResponse = concat(<<ntProofStr, temp>>),
          !.lmChallengeResponse =
              concat(<< hmacMd5(n.responseKeyLM,
                                concat(<<n.serverChallenge, n.clientChallenge>>)),
                        n.clientChallenge >>),
          !.sessionBaseKey = hmacMd5(n.responseKeyNT, ntProofStr)]

V2computeKeyExchangeKey(n) == [n EXCEPT !.keyExchangeKey = n.sessionBaseKey]

V2calculateKeys(n) ==
    [n EXCEPT
       !.ClientSigningKey = signKey(n.NegotiateFlags, n.exportedSessionKey, "Client"),
       !.ServerSigningKey = signKey(n.NegotiateFlags, n.exportedSessionKey, "Server"),
       !.ClientSealingKey = sealKey(n.NegotiateFlags, n.exportedSessionKey, "Client"),
       !.ServerSealingKey = sealKey(n.NegotiateFlags, n.exportedSessionKey, "Server")]

\* ---------------------------------------------------------- server session
ProcessNegotiateMessage(n, nm) == [n EXCEPT !.negotiateMessage = nm]

SetServerChallenge(n, challenge) == [n EXCEPT !.serverChallenge = challenge]

\* V1ServerSession.GenerateChallengeMessage is a stub: returns nil, nil
V1GenerateChallengeMessage(n) == [n |-> n, cm |-> NoChallengeMessage]

\* GenerateChallengeMessage that leaves the datagram bit out of the flags
V2GenerateChallengeMessage_NoDatagram(n, challenge) ==
    [ n |-> [n EXCEPT !.serverChallenge = challenge],
      cm |-> [ok |-> TRUE, NegotiateFlags |-> V2ChallengeFlags \ {DATAGRAM},
              ServerChallenge |-> challenge,
              TargetInfoPayload |-> <<"avpairs", "SEMATEXT">>,
              Version |-> DefaultVersion] ]

\* V2ServerSession.GenerateChallengeMessage with `challenge` drawn at random
V2GenerateChallengeMessage(n, challenge) ==
    [ n |-> [n EXCEPT !.serverChallenge = challenge],
      cm |-> [ok |-> TRUE, NegotiateFlags |-> V2ChallengeFlags,
              ServerChallenge |-> challenge,
              TargetInfoPayload |-> <<"avpairs", "SEMATEXT">>,
              Version |-> DefaultVersion] ]

V1ServerComputeExportedSessionKey(n) ==
    IF IsSet(KEY_EXCH, n.NegotiateFlags)
    THEN [n EXCEPT !.exportedSessionKey =
                      rc4K(n.keyExchangeKey, n.encryptedRandomSessionKey)]
    ELSE [n EXCEPT !.exportedSessionKey = n.keyExchangeKey]

V2ServerComputeExportedSessionKey(n) ==
    IF IsSet(KEY_EXCH, n.NegotiateFlags)
    THEN [n EXCEPT !.exportedSessionKey =
                      rc4K(n.keyExchangeKey, n.encryptedRandomSessionKey)]
    ELSE [n EXCEPT !.exportedSessionKey = n.keyExchangeKey]

\* the comparison with the LM fallback left open under extended security
V1ResponseMismatch_NoExtSecRule(n, am) ==
    /\ am.NtChallengeResponseFields # n.ntChallengeResponse
    /\ am.LmChallengeResponse # n.lmChallengeResponse

\* the response comparison of V1ServerSession.ProcessAuthenticateMessage:
\* TRUE when it returns "Could not authenticate"
V1ResponseMismatch(n, am) ==
    /\ am.NtChallengeResponseFields # n.ntChallengeResponse
    /\ \/ am.LmChallengeResponse # n.lmChallengeResponse
       \/ IsSet(EXT_SEC, n.NegotiateFlags)

\* the response comparison of V2ServerSession.ProcessAuthenticateMessage
V2ResponseMismatch(n, am) ==
    /\ am.NtChallengeResponseFields # n.ntChallengeResponse
    /\ am.LmChallengeResponse # n.lmChallengeResponse

\* the tail of ProcessAuthenticateMessage after the response comparison:
\* both RC4 handles from the sealing keys, an rc4Init error returned at once
ServerInitHandles(n) ==
    LET ch == rc4Init(n.ClientSealingKey)
        sh == rc4Init(n.ServerSealingKey)
    IN IF ~ch.ok THEN [n |-> [n EXCEPT !.clientHandle = ch], err |-> "crypto"]
       ELSE IF ~sh.ok
            THEN [n |-> [n EXCEPT !.clientHandle = ch, !.serverHandle = sh],
                  err |-> "crypto"]
            ELSE [n |-> [n EXCEPT !.clientHandle = ch, !.serverHandle = sh],
                  err |-> "nil"]

\* a nil am.Version left as it is
WithDefaultVersion_LeftNil(am) == am

\* am.Version = nil is replaced by the default version in the message
WithDefaultVersion(am) ==
    IF am.Version = NoVersion THEN [am EXCEPT !.Version = DefaultVersion] ELSE am

\* ProcessAuthenticateMessage that zeroes the message's Mic without saving it
V1ProcessAuthenticateMessage_MicNotSaved(n, am) ==
    LET n1 == [n EXCEPT !.authenticateMessage = am.id,
                        !.NegotiateFlags = am.NegotiateFlags,
                        !.clientChallenge = ClientChallenge(am),
                        !.encryptedRandomSessionKey = am.EncryptedRandomSessionKey,
                        !.user = am.UserName,
                        !.userDomain = am.DomainName]
        n2 == V1computeKeyExchangeKey(V1computeSessionBaseKey(
                  V1computeExpectedResponses(V1fetchResponseKeys(n1))))
        n3 == V1ServerComputeExportedSessionKey(n2)
        am3 == WithDefaultVersion([am EXCEPT !.Mic = zeroBytes(16)])
        r == ServerInitHandles(V1calculateKeys(n3))
    IN IF V1ResponseMismatch(n2, am)
       THEN [n |-> n2, am |-> am, err |-> "Could not authenticate"]
       ELSE [n |-> r.n, am |-> am3, err |-> r.err]

\* returns the session, the message object and the error ("nil" is no error)
\* ProcessAuthenticateMessage that accepts only flags the session already had
V1ProcessAuthenticateMessage_KeepsOwnFlags(n, am) ==
    LET n1 == [n EXCEPT !.authenticateMessage = am.id,
                        !.NegotiateFlags = n.NegotiateFlags \cap am.NegotiateFlags,
                        !.clientChallenge = ClientChallenge(am),
                        !.encryptedRandomSessionKey = am.EncryptedRandomSessionKey,
                        !.user = am.UserName,
                        !.userDomain = am.DomainName]
        n2 == V1computeKeyExchangeKey(V1computeSessionBaseKey(
                  V1computeExpectedResponses(V1fetchResponseKeys(n1))))
        n3 == V1ServerComputeExportedSessionKey([n2 EXCEPT !.mic = am.Mic])
        am3 == WithDefaultVersion([am EXCEPT !.Mic = zeroBytes(16)])
        r == ServerInitHandles(V1calculateKeys(n3))
    IN IF V1ResponseMismatch(n2, am)
       THEN [n |-> n2, am |-> am, err |-> "Could not authenticate"]
       ELSE [n |-> r.n, am |-> am3, err |-> r.err]

V1ProcessAuthenticateMessage(n, am) ==
    LET n1 == [n EXCEPT !.authenticateMessage = am.id,
                        !.NegotiateFlags = am.NegotiateFlags,
                        !.clientChallenge = ClientChallenge(am),
                        !.encryptedRandomSessionKey = am.EncryptedRandomSessionKey,
                        !.user = am.UserName,
                        !.userDomain = am.DomainName]
        n2 == V1computeKeyExchangeKey(V1computeSessionBaseKey(
                  V1computeExpectedResponses(V1fetchResponseKeys(n1))))
        n3 == V1ServerComputeExportedSessionKey([n2 EXCEPT !.mic = am.Mic])
        am3 == WithDefaultVersion([am EXCEPT !.Mic = zeroBytes(16)])
        r == ServerInitHandles(V1calculateKeys(n3))
    IN IF V1ResponseMismatch(n2, am)
       THEN [n |-> n2, am |-> am, err |-> "Could not authenticate"]
       ELSE [n |-> r.n, am |-> am3, err |-> r.err]

\* ProcessAuthenticateMessage that refuses a message with a filled-in Mic
V2ProcessAuthenticateMessage_ChecksMic(n, am) ==
    LET n1 == V2fetchResponseKeys(
                  [n EXCEPT !.authenticateMessage = am.id,
                            !.NegotiateFlags = am.NegotiateFlags,
                            !.clientChallenge = ClientChallenge(am),
                            !.encryptedRandomSessionKey = am.EncryptedRandomSessionKey,
                            !.user = am.UserName,
                            !.userDomain = am.DomainName,
                            !.workstation = am.Workstation])
        n2 == V2computeExpectedResponses(n1, am.NtlmV2Response.TimeStamp,
                                         am.NtlmV2Response.AvPairs)
        n3 == V2ServerComputeExportedSessionKey(
                  [V2computeKeyExchangeKey(n2) EXCEPT !.mic = am.Mic])
        am3 == WithDefaultVersion([am EXCEPT !.Mic = zeroBytes(16)])
        r == ServerInitHandles(V2calculateKeys(n3))
    IN IF ~am.NtlmV2Response.ok
       THEN [n |-> n1, am |-> am, err |-> "panic"]
       ELSE IF V2ResponseMismatch(n2, am) \/ am.Mic \notin {Nil, zeroBytes(16)}
            THEN [n |-> n2, am |-> am, err |-> "Could not authenticate"]
            ELSE [n |-> r.n, am |-> am3, err |-> r.err]

V2ProcessAuthenticateMessage(n, am) ==
    LET n1 == V2fetchResponseKeys(
                  [n EXCEPT !.authenticateMessage = am.id,
                            !.NegotiateFlags = am.NegotiateFlags,
                            !.clientChallenge = ClientChallenge(am),
                            !.encryptedRandomSessionKey = am.EncryptedRandomSessionKey,
                            !.user = am.UserName,
                            !.userDomain = am.DomainName,
                            !.workstation = am.Workstation])
        n2 == V2computeExpectedResponses(n1, am.NtlmV2Response.TimeStamp,
                                         am.NtlmV2Response.AvPairs)
        n3 == V2ServerComputeExportedSessionKey(
                  [V2computeKeyExchangeKey(n2) EXCEPT !.mic = am.Mic])
        am3 == WithDefaultVersion([am EXCEPT !.Mic = zeroBytes(16)])
        r == ServerInitHandles(V2calculateKeys(n3))
    IN IF ~am.NtlmV2Response.ok
       THEN [n |-> n1, am |-> am, err |-> "panic"]
       ELSE IF V2ResponseMismatch(n2, am)
            THEN [n |-> n2, am |-> am, err |-> "Could not authenticate"]
            ELSE [n |-> r.n, am |-> am3, err |-> r.err]

\* ---------------------------------------------------------- client session
V1ClientComputeEncryptedSessionKey(n, sessionKey) ==
    IF IsSet(KEY_EXCH, n.NegotiateFlags)
    THEN [n EXCEPT !.exportedSessionKey = sessionKey,
                   !.encryptedRandomSessionKey = rc4K(n.keyExchangeKey, sessionKey)]
    ELSE [n EXCEPT !.encryptedRandomSessionKey = n.keyExchangeKey]

V2ClientComputeEncryptedSessionKey(n, sessionKey) ==
    IF IsSet(KEY_EXCH, n.NegotiateFlags)
    THEN [n EXCEPT !.exportedSessionKey = sessionKey,
                   !.encryptedRandomSessionKey = rc4K(n.keyExchangeKey, sessionKey)]
    ELSE [n EXCEPT !.encryptedRandomSessionKey = n.keyExchangeKey]

\* the tail with serverHandle keyed from the client sealing key
ClientInitHandles_WrongKey(n) ==
    LET ch == rc4Init(n.ClientSealingKey)
    IN [n |-> [n EXCEPT !.clientHandle = ch, !.serverHandle = ch],
        err |-> IF ch.ok THEN "nil" ELSE "crypto"]

\* the tail of ProcessChallengeMessage: clientHandle when the client signing
\* key is not empty, serverHandle when the server sealing key is not empty
ClientInitHandles(n) ==
    LET ch == rc4Init(n.ClientSealingKey)
        n1 == IF ByteLen(n.ClientSigningKey) > 0
              THEN [n EXCEPT !.clientHandle = ch] ELSE n
        sh == rc4Init(n.ServerSealingKey)
        n2 == IF ByteLen(n.ServerSealingKey) > 0
              THEN [n1 EXCEPT !.serverHandle = sh] ELSE n1
    IN IF ByteLen(n.ClientSigningKey) > 0 /\ ~ch.ok THEN [n |-> n1, err |-> "crypto"]
       ELSE IF ByteLen(n.ServerSealingKey) > 0 /\ ~sh.ok THEN [n |-> n2, err |-> "crypto"]
       ELSE [n |-> n2, err |-> "nil"]

\* clientChallenge and sessionKey are the two draws from the random source
V1ProcessChallengeMessage(n, cm, clientChallenge, sessionKey) ==
    LET n1 == [n EXCEPT !.challengeMessage = cm,
                        !.serverChallenge = cm.ServerChallenge,
                        !.clientChallenge = clientChallenge,
                        !.NegotiateFlags = cm.NegotiateFlags]
        n2 == V1computeKeyExchangeKey(V1computeSessionBaseKey(
                  V1computeExpectedResponses(V1fetchResponseKeys(n1))))
        n3 == V1calculateKeys(V1ClientComputeEncryptedSessionKey(n2, sessionKey))
    IN ClientInitHandles(n3)

V2ProcessChallengeMessage(n, cm, clientChallenge, sessionKey, timestamp) ==
    LET n1 == V2fetchResponseKeys(
                  [n EXCEPT !.challengeMessage = cm,
                            !.serverChallenge = cm.ServerChallenge,
                            !.clientChallenge = clientChallenge,
                            !.NegotiateFlags = cm.NegotiateFlags])
        payload == IF IsSet(TARGET_INFO, cm.NegotiateFlags)
                   THEN cm.TargetInfoPayload ELSE Nil
        n2 == V2computeKeyExchangeKey(V2computeExpectedResponses(n1, timestamp, payload))
        n3 == V2calculateKeys(V2ClientComputeEncryptedSessionKey(n2, sessionKey))
    IN ClientInitHandles(n3)

\* GenerateAuthenticateMessage that leaves the workstation empty
V1GenerateAuthenticateMessage_NoWorkstation(n, id) ==
    [live |-> TRUE, id |-> id, NegotiateFlags |-> n.NegotiateFlags,
     LmChallengeResponse |-> n.lmChallengeResponse,
     NtChallengeResponseFields |-> n.ntChallengeResponse,
     DomainName |-> n.userDomain, UserName |-> n.user,
     Workstation |-> "",
     EncryptedRandomSessionKey |-> n.encryptedRandomSessionKey,
     Mic |-> Nil, Version |-> DefaultVersion, NtlmV2Response |-> NoV2Response]

\* the message object with the given id as the client builds it
V1GenerateAuthenticateMessage(n, id) ==
    [live |-> TRUE, id |-> id, NegotiateFlags |-> n.NegotiateFlags,
     LmChallengeResponse |-> n.lmChallengeResponse,
     NtChallengeResponseFields |-> n.ntChallengeResponse,
     DomainName |-> n.userDomain, UserName |-> n.user,
     Workstation |-> n.workstation,
     EncryptedRandomSessionKey |-> n.encryptedRandomSessionKey,
     Mic |-> Nil, Version |-> DefaultVersion, NtlmV2Response |-> NoV2Response]

V2GenerateAuthenticateMessage(n, id) ==
    [live |-> TRUE, id |-> id, NegotiateFlags |-> n.NegotiateFlags,
     LmChallengeResponse |-> n.lmChallengeResponse,
     NtChallengeResponseFields |-> n.ntChallengeResponse,
     DomainName |-> n.userDomain, UserName |-> n.user,
     Workstation |-> n.workstation,
     EncryptedRandomSessionKey |-> n.encryptedRandomSessionKey,
     Mic |-> zeroBytes(16), Version |-> DefaultVersion,
     NtlmV2Response |-> NoV2Response]

\* timeToWindowsFileTime(t): the 8 FILETIME bytes of Unix second t
timeToWindowsFileTime(t) == <<"filetime", t>>

\* the message as the server's side parses it from the wire: an NTLMv2
\* session reads the NTLMv2 response blob out of the NT response payload
ParseAuthenticateMessage(am, ntlmVersion) ==
    LET nt == am.NtChallengeResponseFields
        wellFormed == /\ nt # Nil
                      /\ nt[1] = "cat"
                      /\ Len(nt[2]) = 2
                      /\ nt[2][2] # Nil
                      /\ nt[2][2][1] = "cat"
    IN IF ntlmVersion = 2 /\ wellFormed
       THEN [am EXCEPT !.NtlmV2Response =
                [ok |-> TRUE,
                 TimeStamp |-> nt[2][2][2][4],
                 ChallengeFromClient |-> nt[2][2][2][5],
                 AvPairs |-> nt[2][2][2][7]]]
       ELSE am

\* ---------------------------------------------------------------- MAC
\* a signature no session ever computes
JunkSignature == <<"junk", 16>>

\* mac(): the 16-byte signature; panic when it drives a nil RC4 handle
mac(flags, handle, signingKey, seq, message) ==
    LET chk == Prefix(hmacMd5(signingKey, concat(<<le32(seq), message>>)), 8)
    IN IF IsSet(EXT_SEC, flags)
       THEN IF ~IsSet(KEY_EXCH, flags)
            THEN [panic |-> FALSE, sig |-> <<"sig", chk, le32(seq)>>, handle |-> handle]
            ELSE IF ~handle.ok
                 THEN [panic |-> TRUE, sig |-> Nil, handle |-> handle]
                 ELSE [panic |-> FALSE,
                       sig |-> <<"sig", Keystream(handle.key, handle.pos, chk), le32(seq)>>,
                       handle |-> [handle EXCEPT !.pos = @ + 8]]
       ELSE IF ~handle.ok
            THEN [panic |-> TRUE, sig |-> Nil, handle |-> handle]
            ELSE [panic |-> FALSE,
                  sig |-> <<"sig",
                            Keystream(handle.key, handle.pos, crc32(message)),
                            <<"xor", Keystream(handle.key, handle.pos + 4, zeroBytes(4)), seq>>,
                            Keystream(handle.key, handle.pos + 8, zeroBytes(4))>>,
                  handle |-> [handle EXCEPT !.pos = @ + 12]]

\* ntlmV1Mac that drives the session's running handle in every mode
ntlmV1Mac_RunningHandle(message, sequenceNumber, handle, sealingKey, signingKey, NegotiateFlags) ==
    LET r == mac(NegotiateFlags, handle, signingKey, sequenceNumber, message)
    IN [panic |-> r.panic, sig |-> r.sig, handle |-> r.handle]

\* the session's handle afterwards is the one passed in, advanced only when
\* mac() drove it; in datagram mode a call-local handle is driven instead
ntlmV1Mac(message, sequenceNumber, handle, sealingKey, signingKey, NegotiateFlags) ==
    LET h == IF IsSet(DATAGRAM, NegotiateFlags) /\ IsSet(EXT_SEC, NegotiateFlags)
             THEN reinitSealingKey(sealingKey, sequenceNumber)
             ELSE IF IsSet(DATAGRAM, NegotiateFlags) THEN rc4Init(sealingKey)
             ELSE handle
        r == mac(NegotiateFlags, h, signingKey, sequenceNumber, message)
    IN [panic |-> r.panic, sig |-> r.sig,
        handle |-> IF IsSet(DATAGRAM, NegotiateFlags) THEN handle ELSE r.handle]

NtlmV2Mac(message, sequenceNumber, handle, sealingKey, signingKey, NegotiateFlags) ==
    LET h == IF IsSet(DATAGRAM, NegotiateFlags) /\ IsSet(EXT_SEC, NegotiateFlags)
             THEN reinitSealingKey(sealingKey, sequenceNumber)
             ELSE IF IsSet(DATAGRAM, NegotiateFlags) THEN rc4Init(sealingKey)
             ELSE handle
        r == mac(NegotiateFlags, h, signingKey, sequenceNumber, message)
    IN [panic |-> r.panic, sig |-> r.sig,
        handle |-> IF IsSet(DATAGRAM, NegotiateFlags) THEN handle ELSE r.handle]

MacsEqual(a, b) == a = b

\* Mac / VerifyMac of the four session kinds: the session afterwards, whether
\* the call panicked, the signature computed, and for VerifyMac the verdict
V1ServerMac(n, message, sequenceNumber) ==
    LET r == ntlmV1Mac(message, sequenceNumber, n.serverHandle, n.ServerSealingKey,
                       n.ServerSigningKey, n.NegotiateFlags)
    IN [n |-> [n EXCEPT !.serverHandle = r.handle], panic |-> r.panic, mac |-> r.sig]

V1ClientMac(n, message, sequenceNumber) ==
    LET r == ntlmV1Mac(message, sequenceNumber, n.clientHandle, n.ClientSealingKey,
                       n.ClientSigningKey, n.NegotiateFlags)
    IN [n |-> [n EXCEPT !.clientHandle = r.handle], panic |-> r.panic, mac |-> r.sig]

V1ServerVerifyMac(n, message, expectedMac, sequenceNumber) ==
    LET r == ntlmV1Mac(message, sequenceNumber, n.clientHandle, n.ClientSealingKey,
                       n.ClientSigningKey, n.NegotiateFlags)
    IN [n |-> [n EXCEPT !.clientHandle = r.handle], panic |-> r.panic,
        ok |-> ~r.panic /\ MacsEqual(r.sig, expectedMac)]

\* VerifyMac that accepts whatever signature it is offered
V1ClientVerifyMac_AcceptAll(n, message, expectedMac, sequenceNumber) ==
    LET r == ntlmV1Mac(message, sequenceNumber, n.serverHandle, n.ServerSealingKey,
                       n.ServerSigningKey, n.NegotiateFlags)
    IN [n |-> [n EXCEPT !.serverHandle = r.handle], panic |-> r.panic,
        ok |-> ~r.panic]

V1ClientVerifyMac(n, message, expectedMac, sequenceNumber) ==
    LET r == ntlmV1Mac(message, sequenceNumber, n.serverHandle, n.ServerSealingKey,
                       n.ServerSigningKey, n.NegotiateFlags)
    IN [n |-> [n EXCEPT !.serverHandle = r.handle], panic |-> r.panic,
        ok |-> ~r.panic /\ MacsEqual(r.sig, expectedMac)]

V2ServerMac(n, message, sequenceNumber) ==
    LET r == NtlmV2Mac(message, sequenceNumber, n.serverHandle, n.ServerSealingKey,
                       n.ServerSigningKey, n.NegotiateFlags)
    IN [n |-> [n EXCEPT !.serverHandle = r.handle], panic |-> r.panic, mac |-> r.sig]

\* VerifyMac that writes the handle it drove into the serverHandle field
V2ServerVerifyMac_StoresServerHandle(n, message, expectedMac, sequenceNumber) ==
    LET r == NtlmV2Mac(message, sequenceNumber, n.clientHandle, n.ClientSealingKey,
                       n.ClientSigningKey, n.NegotiateFlags)
    IN [n |-> [n EXCEPT !.serverHandle = r.handle], panic |-> r.panic,
        ok |-> ~r.panic /\ MacsEqual(r.sig, expectedMac)]

V2ServerVerifyMac(n, message, expectedMac, sequenceNumber) ==
    LET r == NtlmV2Mac(message, sequenceNumber, n.clientHandle, n.ClientSealingKey,
                       n.ClientSigningKey, n.NegotiateFlags)
    IN [n |-> [n EXCEPT !.clientHandle = r.handle], panic |-> r.panic,
        ok |-> ~r.panic /\ MacsEqual(r.sig, expectedMac)]

V2ClientMac(n, message, sequenceNumber) ==
    LET r == NtlmV2Mac(message, sequenceNumber, n.clientHandle, n.ClientSealingKey,
                       n.ClientSigningKey, n.NegotiateFlags)
    IN [n |-> [n EXCEPT !.clientHandle = r.handle], panic |-> r.panic, mac |-> r.sig]

V2ClientVerifyMac(n, message, expectedMac, sequenceNumber) ==
    LET r == NtlmV2Mac(message, sequenceNumber, n.serverHandle, n.ServerSealingKey,
                       n.ServerSigningKey, n.NegotiateFlags)
    IN [n |-> [n EXCEPT !.serverHandle = r.handle], panic |-> r.panic,
        ok |-> ~r.panic /\ MacsEqual(r.sig, expectedMac)]

\* ------------------------------------------------------------------ state
VARIABLES
    ntlmVersion,  \* 1 or 2: the NTLM version of both sessions
    srv,          \* the server session's SessionData
    other,        \* a second server session of the same version
    cli,          \* the client session's SessionData
    am,           \* the AuthenticateMessage object on its way to the server
    last,         \* the last call: its name, caller and results
    wire,         \* the last signature a Mac call returned, with its inputs
    authed,       \* per side: has its handshake call ever returned no error
    paired,       \* the two sessions completed the same handshake
    macOps        \* number of Mac / VerifyMac calls so far

vars == <<ntlmVersion, srv, other, cli, am, last, wire, authed, paired, macOps>>

\* ---------------------------------------------------------------- inputs
Users == {"User"}

Passwords == {"Password"}

Domains == {"Domain"}

Workstations == {"COMPUTER"}

NegotiateMessages == {"nm1"}

Challenges == {randomBytes(8, 1)}

ClientChallenges == {randomBytes(8, 0)}

SessionKeys == {randomBytes(16, 1)}

Timestamps == {timeToWindowsFileTime(0)}

\* the third message differs from the first and has the same CRC-32
Messages == {<<"msg", 1, "crcA">>, <<"msg", 2, "crcB">>, <<"msg", 3, "crcA">>}

Seqs == {0, 1}

\* the flag words a CHALLENGE message carries in the handshake behaviours
FlagWords == (SUBSET {KEY_EXCH, EXT_SEC}) \cup {V2ChallengeFlags}

\* the flag words of the MAC behaviours: every signature mode
MacFlagWords == SUBSET {KEY_EXCH, EXT_SEC, DATAGRAM}

\* differ = which of VerifyMac's (message, expectedMac, sequenceNumber)
\* differ from the (message, mac, seq) of the last signature signed
\* given = the Mic and Version the message carried when
\* ProcessAuthenticateMessage was entered
NoCall ==
    [op |-> "", by |-> "", err |-> "nil", handshake |-> FALSE,
     ok |-> FALSE, differ |-> {}, wasAuthed |-> FALSE,
     given |-> [Mic |-> Nil, Version |-> NoVersion]]

NoSignature == [by |-> "", message |-> <<"msg", 0, "">>, seq |-> 0, mac |-> Nil]

Init ==
    /\ ntlmVersion \in {1, 2}
    /\ srv = NewSession
    /\ other = NewSession
    /\ cli = NewSession
    /\ am = NoAuthenticateMessage
    /\ last = NoCall
    /\ wire = NoSignature
    /\ authed = [server |-> FALSE, client |-> FALSE]
    /\ paired = FALSE
    /\ macOps = 0

\* ---------------------------------------------------------------- actions
\* the message the server's side parses from what the client generates now
ClientMessage(id) ==
    ParseAuthenticateMessage(
        IF ntlmVersion = 1 THEN V1GenerateAuthenticateMessage(cli, id)
        ELSE V2GenerateAuthenticateMessage(cli, id),
        ntlmVersion)

\* am is the client's current AUTHENTICATE message, untampered, and the
\* server holds the client's password and server challenge
Genuine ==
    /\ authed.client
    /\ am.live
    /\ [am EXCEPT !.Mic = Nil, !.Version = NoVersion]
         = [ClientMessage(am.id) EXCEPT !.Mic = Nil, !.Version = NoVersion]
    /\ srv.password = cli.password
    /\ srv.serverChallenge = cli.serverChallenge

ServerSetUserInfo ==
    \E u \in Users, p \in Passwords, d \in Domains, w \in Workstations :
        /\ srv' = SetUserInfo(srv, u, p, d, w)
        /\ last' = NoCall
        /\ UNCHANGED <<other, ntlmVersion, cli, am, wire, authed, paired, macOps>>

ClientSetUserInfo ==
    \E u \in Users, p \in Passwords, d \in Domains, w \in Workstations :
        /\ cli' = SetUserInfo(cli, u, p, d, w)
        /\ last' = NoCall
        /\ UNCHANGED <<other, ntlmVersion, srv, am, wire, authed, paired, macOps>>

ServerProcessNegotiateMessage ==
    \E nm \in NegotiateMessages :
        /\ srv' = ProcessNegotiateMessage(srv, nm)
        /\ last' = NoCall
        /\ UNCHANGED <<other, ntlmVersion, cli, am, wire, authed, paired, macOps>>

ServerSetServerChallenge ==
    \E c \in Challenges :
        /\ srv' = SetServerChallenge(srv, c)
        /\ last' = NoCall
        /\ UNCHANGED <<other, ntlmVersion, cli, am, wire, authed, paired, macOps>>

\* the NTLMv1 stub changes nothing and returns no message
ServerGenerateChallengeMessage ==
    \E c \in Challenges :
        LET r == IF ntlmVersion = 1 THEN V1GenerateChallengeMessage(srv)
                 ELSE V2GenerateChallengeMessage(srv, c)
        IN /\ srv' = r.n
           /\ last' = [NoCall EXCEPT !.op = "GenerateChallengeMessage",
                                     !.by = "server", !.ok = r.cm.ok]
           /\ UNCHANGED <<other, ntlmVersion, cli, am, wire, authed, paired, macOps>>

\* a CHALLENGE message with one of the flag words `words` reaches the client;
\* a message of an earlier handshake still in flight is dropped.  once: the
\* caller runs one handshake only
ClientProcessChallengeMessage(words, once) ==
    /\ once => ~authed.client
    /\ \E f \in words, c \in Challenges, cc \in ClientChallenges,
          k \in SessionKeys, t \in Timestamps :
        LET cm == [ok |-> TRUE, NegotiateFlags |-> f, ServerChallenge |-> c,
                   TargetInfoPayload |-> <<"avpairs", "SEMATEXT">>,
                   Version |-> DefaultVersion]
            r == IF ntlmVersion = 1 THEN V1ProcessChallengeMessage(cli, cm, cc, k)
                 ELSE V2ProcessChallengeMessage(cli, cm, cc, k, t)
        IN /\ cli' = r.n
           /\ am' = [NoAuthenticateMessage EXCEPT !.id = am.id]
           /\ last' = [NoCall EXCEPT !.op = "ProcessChallengeMessage",
                                     !.by = "client", !.err = r.err]
           /\ authed' = [authed EXCEPT !.client = @ \/ r.err = "nil"]
           /\ paired' = FALSE
           /\ UNCHANGED <<other, ntlmVersion, srv, wire, macOps>>

\* the client allocates a new message object, which travels to the server
ClientGenerateAuthenticateMessage(once) ==
    /\ IF once THEN am.id = 0 ELSE am.id < MaxAuthMsgs
    /\ am' = ClientMessage(am.id + 1)
    /\ last' = NoCall
    /\ UNCHANGED <<other, ntlmVersion, srv, cli, wire, authed, paired, macOps>>

\* the NT response of the message in flight is altered
TamperNtResponse ==
    /\ am.live
    /\ am' = [am EXCEPT !.NtChallengeResponseFields =
                 IF @ # Nil /\ @[1] = "cat"
                 THEN concat(<<JunkSignature, @[2][2]>>)
                 ELSE <<"junk", 24>>]
    /\ am' # am
    /\ last' = NoCall
    /\ UNCHANGED <<other, ntlmVersion, srv, cli, wire, authed, paired, macOps>>

\* the LM response of the message in flight is altered
TamperLmResponse ==
    /\ am.live
    /\ am' = [am EXCEPT !.LmChallengeResponse = <<"junk", 24>>]
    /\ am' # am
    /\ last' = NoCall
    /\ UNCHANGED <<other, ntlmVersion, srv, cli, wire, authed, paired, macOps>>

\* the server is set up (identity, challenge) before it is handed a message
ServerProcessAuthenticateMessage(once) ==
    /\ am.live
    /\ srv.password # "" /\ srv.serverChallenge # Nil
    /\ once => ~authed.server
    /\ LET r == IF ntlmVersion = 1 THEN V1ProcessAuthenticateMessage(srv, am)
                ELSE V2ProcessAuthenticateMessage(srv, am)
       IN /\ srv' = r.n
          /\ am' = r.am
          /\ last' = [NoCall EXCEPT !.op = "ProcessAuthenticateMessage",
                                    !.by = "server", !.err = r.err,
                                    !.handshake = Genuine,
                                    !.given = [Mic |-> am.Mic,
                                               Version |-> am.Version]]
          /\ authed' = [authed EXCEPT !.server = @ \/ r.err = "nil"]
          /\ paired' = (Genuine /\ r.err = "nil")
          /\ UNCHANGED <<other, ntlmVersion, cli, wire, macOps>>

\* the MAC calls are bounded: MaxMacOps in all, MaxEarlyMacOps before both
\* sides have authenticated
MacAllowed ==
    macOps < (IF authed.server /\ authed.client THEN MaxMacOps ELSE MaxEarlyMacOps)

\* Mac never returns an error: the caller gets the signature, or the panic
ServerMac ==
    /\ MacAllowed
    /\ \E m \in Messages, seq \in Seqs :
        LET r == IF ntlmVersion = 1 THEN V1ServerMac(srv, m, seq)
                 ELSE V2ServerMac(srv, m, seq)
        IN /\ srv' = r.n
           /\ last' = [NoCall EXCEPT !.op = "Mac", !.by = "server",
                                     !.err = IF r.panic THEN "panic" ELSE "nil",
                                     !.ok = ~r.panic,
                                     !.wasAuthed = authed.server]
           /\ wire' = IF r.panic THEN wire
                      ELSE [by |-> "server", message |-> m, seq |-> seq, mac |-> r.mac]
           /\ macOps' = macOps + 1
           /\ UNCHANGED <<other, ntlmVersion, cli, am, authed, paired>>

ClientMac ==
    /\ MacAllowed
    /\ \E m \in Messages, seq \in Seqs :
        LET r == IF ntlmVersion = 1 THEN V1ClientMac(cli, m, seq)
                 ELSE V2ClientMac(cli, m, seq)
        IN /\ cli' = r.n
           /\ last' = [NoCall EXCEPT !.op = "Mac", !.by = "client",
                                     !.err = IF r.panic THEN "panic" ELSE "nil",
                                     !.ok = ~r.panic,
                                     !.wasAuthed = authed.client]
           /\ wire' = IF r.panic THEN wire
                      ELSE [by |-> "client", message |-> m, seq |-> seq, mac |-> r.mac]
           /\ macOps' = macOps + 1
           /\ UNCHANGED <<other, ntlmVersion, srv, am, authed, paired>>

\* which of the three arguments differ from the last signature's; "crc32"
\* when the message differs in its CRC-32 as well
Differ(m, e, seq) ==
    (IF m = wire.message THEN {} ELSE {"message"})
        \cup (IF crc32(m) = crc32(wire.message) THEN {} ELSE {"crc32"})
        \cup (IF e = wire.mac THEN {} ELSE {"mac"})
        \cup (IF seq = wire.seq THEN {} ELSE {"seq"})

\* the signature offered is the last one signed, or a foreign one
ServerVerifyMac ==
    /\ MacAllowed
    /\ \E m \in Messages, seq \in Seqs, e \in {wire.mac, JunkSignature} :
        LET r == IF ntlmVersion = 1 THEN V1ServerVerifyMac(srv, m, e, seq)
                 ELSE V2ServerVerifyMac(srv, m, e, seq)
        IN /\ srv' = r.n
           /\ last' = [NoCall EXCEPT !.op = "VerifyMac", !.by = "server",
                                     !.err = IF r.panic THEN "panic" ELSE "nil",
                                     !.ok = r.ok, !.differ = Differ(m, e, seq),
                                     !.wasAuthed = authed.server]
           /\ macOps' = macOps + 1
           /\ UNCHANGED <<other, ntlmVersion, cli, am, wire, authed, paired>>

ClientVerifyMac ==
    /\ MacAllowed
    /\ \E m \in Messages, seq \in Seqs, e \in {wire.mac, JunkSignature} :
        LET r == IF ntlmVersion = 1 THEN V1ClientVerifyMac(cli, m, e, seq)
                 ELSE V2ClientVerifyMac(cli, m, e, seq)
        IN /\ cli' = r.n
           /\ last' = [NoCall EXCEPT !.op = "VerifyMac", !.by = "client",
                                     !.err = IF r.panic THEN "panic" ELSE "nil",
                                     !.ok = r.ok, !.differ = Differ(m, e, seq),
                                     !.wasAuthed = authed.client]
           /\ macOps' = macOps + 1
           /\ UNCHANGED <<other, ntlmVersion, srv, am, wire, authed, paired>>

\* the handshake operations, in any order and any number of times
Next ==
    \/ ServerSetUserInfo
    \/ ClientSetUserInfo
    \/ ServerProcessNegotiateMessage
    \/ ServerSetServerChallenge
    \/ ServerGenerateChallengeMessage
    \/ ClientProcessChallengeMessage(FlagWords, FALSE)
    \/ ClientGenerateAuthenticateMessage(FALSE)
    \/ TamperNtResponse
    \/ TamperLmResponse
    \/ ServerProcessAuthenticateMessage(FALSE)

Spec == Init /\ [][Next]_vars

\* one handshake in every signature mode; MAC traffic may start at any
\* point of it, and no handshake call follows a Mac / VerifyMac call
MacNext ==
    \/ macOps = 0 /\ ServerSetUserInfo
    \/ macOps = 0 /\ ClientSetUserInfo
    \/ macOps = 0 /\ ServerSetServerChallenge
    \/ macOps = 0 /\ ClientProcessChallengeMessage(MacFlagWords, TRUE)
    \/ macOps = 0 /\ ClientGenerateAuthenticateMessage(TRUE)
    \/ macOps = 0 /\ TamperNtResponse
    \/ macOps = 0 /\ ServerProcessAuthenticateMessage(TRUE)
    \/ ServerMac
    \/ ClientMac
    \/ ServerVerifyMac
    \/ ClientVerifyMac

MacSpec == Init /\ [][MacNext]_vars

\* ------------------------------------------ messages the server is handed
\* a MIC the sender wrote into the message's 16-byte Mic slot
FilledMic == <<"mic", 16>>

\* the message in flight arrives with a MIC filled in
ReceiveMic ==
    /\ am.live
    /\ am' = [am EXCEPT !.Mic = FilledMic]
    /\ am' # am
    /\ last' = NoCall
    /\ UNCHANGED <<other, ntlmVersion, srv, cli, wire, authed, paired, macOps>>

\* the message in flight arrives without a version structure
ReceiveNoVersion ==
    /\ am.live
    /\ am' = [am EXCEPT !.Version = NoVersion]
    /\ am' # am
    /\ last' = NoCall
    /\ UNCHANGED <<other, ntlmVersion, srv, cli, wire, authed, paired, macOps>>

\* the message in flight is parsed without an NTLMv2 response structure
ReceiveNoV2Response ==
    /\ am.live
    /\ am' = [am EXCEPT !.NtlmV2Response = NoV2Response]
    /\ am' # am
    /\ last' = NoCall
    /\ UNCHANGED <<other, ntlmVersion, srv, cli, wire, authed, paired, macOps>>

\* identity a server is seeded with before it sees a message: its own
\* names, and the account's password
OwnUsers == {"Admin"}

OwnDomains == {"Corp"}

OwnWorkstations == {"SERVER"}

ServerSetOwnUserInfo ==
    \E u \in OwnUsers, p \in Passwords, d \in OwnDomains, w \in OwnWorkstations :
        /\ srv' = SetUserInfo(srv, u, p, d, w)
        /\ last' = NoCall
        /\ UNCHANGED <<other, ntlmVersion, cli, am, wire, authed, paired, macOps>>

\* SetServerChallenge takes any byte slice: 8 bytes, or fewer
AnyChallenges == Challenges \cup {randomBytes(4, 1)}

ServerSetAnyServerChallenge ==
    \E c \in AnyChallenges :
        /\ srv' = SetServerChallenge(srv, c)
        /\ last' = NoCall
        /\ UNCHANGED <<other, ntlmVersion, cli, am, wire, authed, paired, macOps>>

\* the flag words of the server-side behaviours
AuthFlagWords == SUBSET {KEY_EXCH, EXT_SEC}

\* one client handshake; its message reaches the server as sent or altered,
\* and the server processes what it is handed any number of times
AuthNext ==
    \/ ServerSetOwnUserInfo
    \/ ServerSetAnyServerChallenge
    \/ ClientSetUserInfo
    \/ ClientProcessChallengeMessage(AuthFlagWords, TRUE)
    \/ ClientGenerateAuthenticateMessage(TRUE)
    \/ TamperNtResponse
    \/ ReceiveMic
    \/ ReceiveNoVersion
    \/ ReceiveNoV2Response
    \/ ServerProcessAuthenticateMessage(FALSE)

AuthSpec == Init /\ [][AuthNext]_vars

\* ------------------------------------------------ a second server session
\* the second server knows the account's password, or a wrong one
OtherPasswords == {"Password", "password"}

OtherSetUserInfo ==
    \E u \in Users, p \in OtherPasswords, d \in Domains, w \in Workstations :
        /\ other' = SetUserInfo(other, u, p, d, w)
        /\ last' = NoCall
        /\ UNCHANGED <<ntlmVersion, srv, cli, am, wire, authed, paired, macOps>>

\* both servers may be given the same challenge byte slice
OtherSetServerChallenge ==
    \E c \in Challenges :
        /\ other' = SetServerChallenge(other, c)
        /\ last' = NoCall
        /\ UNCHANGED <<ntlmVersion, srv, cli, am, wire, authed, paired, macOps>>

\* the second server is handed the same message object as the first
OtherProcessAuthenticateMessage ==
    /\ am.live
    /\ other.password # "" /\ other.serverChallenge # Nil
    /\ LET r == IF ntlmVersion = 1 THEN V1ProcessAuthenticateMessage(other, am)
                ELSE V2ProcessAuthenticateMessage(other, am)
       IN /\ other' = r.n
          /\ am' = r.am
          /\ last' = [NoCall EXCEPT !.op = "ProcessAuthenticateMessage",
                                    !.by = "other", !.err = r.err,
                                    !.given = [Mic |-> am.Mic,
                                               Version |-> am.Version]]
          /\ UNCHANGED <<ntlmVersion, srv, cli, wire, authed, paired, macOps>>

\* the flag words of the two-server behaviours
ShareFlagWords == {{}, {KEY_EXCH, EXT_SEC}}

\* two server sessions and one client; both servers process the one message
\* object the client's side produced
ShareNext ==
    \/ ServerSetUserInfo
    \/ ServerSetServerChallenge
    \/ OtherSetUserInfo
    \/ OtherSetServerChallenge
    \/ ClientSetUserInfo
    \/ ClientProcessChallengeMessage(ShareFlagWords, TRUE)
    \/ ClientGenerateAuthenticateMessage(TRUE)
    \/ ReceiveMic
    \/ ReceiveNoVersion
    \/ ServerProcessAuthenticateMessage(FALSE)
    \/ OtherProcessAuthenticateMessage

ShareSpec == Init /\ [][ShareNext]_vars

\* ------------------------------------------------------------- properties
\* the session of a side
Session(side) == IF side = "server" THEN srv ELSE cli

\* the four directional keys of a session
DirectionalKeys(n) ==
    <<n.ClientSigningKey, n.ServerSigningKey, n.ClientSealingKey, n.ServerSealingKey>>

\* the four directional keys of a session that derived none
NoKeys == <<Nil, Nil, Nil, Nil>>

\* C1: a client that ran ProcessChallengeMessage and a server that ran
\* ProcessAuthenticateMessage on that client's message, with the same
\* password and server challenge, hold identical NT and LM responses,
\* keyExchangeKey, exportedSessionKey and four directional keys, with and
\* without KEY_EXCH
C1_RoundTrip ==
    paired =>
        /\ cli.ntChallengeResponse = srv.ntChallengeResponse
        /\ cli.lmChallengeResponse = srv.lmChallengeResponse
        /\ cli.keyExchangeKey = srv.keyExchangeKey
        /\ cli.exportedSessionKey = srv.exportedSessionKey
        /\ DirectionalKeys(cli) = DirectionalKeys(srv)

\* C2: after a client ProcessChallengeMessage, with KEY_EXCH the exported
\* session key is a fresh random key and the encrypted key is its RC4K under
\* keyExchangeKey, without KEY_EXCH both equal keyExchangeKey; after a server
\* ProcessAuthenticateMessage the exported key is RC4K(keyExchangeKey,
\* encrypted key) with KEY_EXCH and keyExchangeKey without
C2_KeyExchange ==
    /\ (last.op = "ProcessChallengeMessage" /\ last.err = "nil") =>
          IF IsSet(KEY_EXCH, cli.NegotiateFlags)
          THEN /\ cli.exportedSessionKey \in SessionKeys
               /\ cli.encryptedRandomSessionKey =
                      rc4K(cli.keyExchangeKey, cli.exportedSessionKey)
          ELSE /\ cli.exportedSessionKey = cli.keyExchangeKey
               /\ cli.encryptedRandomSessionKey = cli.keyExchangeKey
    /\ (last.op = "ProcessAuthenticateMessage" /\ last.err = "nil") =>
          srv.exportedSessionKey =
              IF IsSet(KEY_EXCH, srv.NegotiateFlags)
              THEN rc4K(srv.keyExchangeKey, srv.encryptedRandomSessionKey)
              ELSE srv.keyExchangeKey

\* the LM fallback is open: not an NTLMv1 session under extended security
LmFallbackAllowed == ~(ntlmVersion = 1 /\ IsSet(EXT_SEC, srv.NegotiateFlags))

\* C3: a server ProcessAuthenticateMessage that unpacked its message
\* succeeds exactly when the message's NT response equals the expected one,
\* or the LM response equals the expected one and the session is not an
\* NTLMv1 session under extended session security; otherwise it returns the
\* authentication error
C3_ResponseComparison ==
    (last.op = "ProcessAuthenticateMessage" /\ last.err # "panic") =>
        /\ last.err \in {"nil", "Could not authenticate"}
        /\ last.err = "nil" <=>
              \/ am.NtChallengeResponseFields = srv.ntChallengeResponse
              \/ /\ am.LmChallengeResponse = srv.lmChallengeResponse
                 /\ LmFallbackAllowed

\* the LM fallback was taken: NT response wrong, LM response right, success
C3_Witness ==
    /\ last.op = "ProcessAuthenticateMessage"
    /\ last.err = "nil"
    /\ am.NtChallengeResponseFields # srv.ntChallengeResponse
    /\ am.LmChallengeResponse = srv.lmChallengeResponse

\* C4: whenever a server ProcessAuthenticateMessage returns an error, also on
\* a session that authenticated before, the session holds no directional key
\* and no RC4 handle afterwards
C4_FailedAuthLeavesNoMacMaterial ==
    (last.op = "ProcessAuthenticateMessage" /\ last.err # "nil") =>
        /\ DirectionalKeys(srv) = NoKeys
        /\ ~srv.clientHandle.ok
        /\ ~srv.serverHandle.ok

\* all four directional keys derived, clientHandle a fresh RC4 state of
\* ClientSealingKey and serverHandle one of ServerSealingKey
Ready(n) ==
    /\ \A i \in 1..4 : DirectionalKeys(n)[i] # Nil
    /\ n.clientHandle.ok /\ n.clientHandle = rc4Init(n.ClientSealingKey)
    /\ n.serverHandle.ok /\ n.serverHandle = rc4Init(n.ServerSealingKey)

\* C5: whenever client ProcessChallengeMessage or server
\* ProcessAuthenticateMessage returns no error, the session is fully ready,
\* for every flag word
C5_SuccessMeansReady ==
    (last.op \in {"ProcessChallengeMessage", "ProcessAuthenticateMessage"}
        /\ last.err = "nil") => Ready(Session(last.by))

\* a client ProcessChallengeMessage succeeded on the empty flag word
C5_Witness ==
    /\ last.op = "ProcessChallengeMessage"
    /\ last.err = "nil"
    /\ cli.NegotiateFlags = {}
    /\ cli.serverHandle.ok

\* C6: Mac and VerifyMac on a session that has not completed authentication
\* fail cleanly: the call does not crash, it returns an error or false, and
\* no signature is produced
C6_MacBeforeAuthFailsCleanly ==
    (last.op \in {"Mac", "VerifyMac"} /\ ~last.wasAuthed) =>
        /\ last.err # "panic"
        /\ ~last.ok

\* the last call verified a signature of the peer of the verifying side
PeerVerified ==
    /\ paired
    /\ last.op = "VerifyMac"
    /\ wire.by \in {"server", "client"}
    /\ last.by # wire.by

\* C7: for a client and a server that completed the same handshake, the
\* signature one side's Mac(m, seq) returns is accepted by the peer's
\* VerifyMac(m, s, seq), for every message and sequence number
C7_MacRoundTrip == (PeerVerified /\ last.differ = {}) => last.ok

\* the original statement of C8: the peer's VerifyMac returns false when
\* exactly one of message, signature and sequence number differs from the
\* signed ones, in every mode
C8_AnyAlterationRejected ==
    (PeerVerified /\ Cardinality(last.differ \ {"crc32"}) = 1) => ~last.ok

\* C8: the peer's VerifyMac returns false when exactly one of message,
\* signature and sequence number differs from the signed ones; under the
\* legacy signature a differing message is one whose CRC-32 differs too (as
\* it does after any single bit flip)
C8_AlterationRejected ==
    (/\ PeerVerified
     /\ Cardinality(last.differ \ {"crc32"}) = 1
     /\ last.differ = {"message"} => IsSet(EXT_SEC, Session(last.by).NegotiateFlags))
        => ~last.ok

\* a verification that only an altered argument makes fail: the peer's
\* handle and keys are those of the signer, one argument differs
C8_Witness ==
    /\ PeerVerified
    /\ IsSet(KEY_EXCH, Session(last.by).NegotiateFlags)
    /\ macOps = 2
    /\ Cardinality(last.differ \ {"crc32"}) = 1
    /\ ~last.ok

\* the session is in the authenticated state
Authenticated(n) ==
    /\ DirectionalKeys(n) # NoKeys
    /\ n.clientHandle.ok
    /\ n.serverHandle.ok

\* the directional keys and the identity of the two RC4 handles (the key
\* each was created from), not their stream positions
MacMaterial(n) ==
    <<DirectionalKeys(n), n.clientHandle.ok, n.clientHandle.key,
      n.serverHandle.ok, n.serverHandle.key>>

\* C9: once a session is authenticated, no later operation on it replaces
\* its directional keys or its RC4 handles
C9_NeverRebuilt ==
    [][/\ Authenticated(srv) => MacMaterial(srv') = MacMaterial(srv)
       /\ Authenticated(cli) => MacMaterial(cli') = MacMaterial(cli)]_vars

\* the directional keys are those of the current flags and exported key
KeysDerived(n) ==
    DirectionalKeys(n) =
        << signKey(n.NegotiateFlags, n.exportedSessionKey, "Client"),
           signKey(n.NegotiateFlags, n.exportedSessionKey, "Server"),
           sealKey(n.NegotiateFlags, n.exportedSessionKey, "Client"),
           sealKey(n.NegotiateFlags, n.exportedSessionKey, "Server") >>

\* C10: in every reachable state, once the directional keys are set they
\* are SIGNKEY / SEALKEY of the session's current NegotiateFlags and
\* exportedSessionKey
C10_KeysMatchFlags ==
    \A n \in {srv, cli} : DirectionalKeys(n) # NoKeys => KeysDerived(n)

\* ProcessAuthenticateMessage of the sessions' NTLM version
ProcessAuthenticateMessage(n, m) ==
    IF ntlmVersion = 1 THEN V1ProcessAuthenticateMessage(n, m)
    ELSE V2ProcessAuthenticateMessage(n, m)

\* C11: a successful server ProcessAuthenticateMessage(am) leaves the
\* session's mic equal to the Mic am carried on entry and am.Mic 16 zero
\* bytes; one that fails the response comparison leaves am.Mic and the
\* session's mic unchanged
C11_MicSavedThenZeroed ==
    [][(last'.op = "ProcessAuthenticateMessage" /\ last'.by = "server") =>
          /\ last'.err = "nil" =>
                (srv'.mic = am.Mic /\ am'.Mic = zeroBytes(16))
          /\ last'.err = "Could not authenticate" =>
                (am'.Mic = am.Mic /\ srv'.mic = srv.mic)]_vars

\* a message that carried a filled-in MIC was accepted
C11_Witness ==
    /\ last.op = "ProcessAuthenticateMessage"
    /\ last.err = "nil"
    /\ last.given.Mic = FilledMic
    /\ srv.mic = FilledMic
    /\ am.Mic = zeroBytes(16)

\* C12: on a message whose Version is nil, server ProcessAuthenticateMessage
\* gives the verdict and the session it gives for the same message carrying
\* the default version; on success the message's Version becomes the default
\* version (6, 1, 7601, 15), on the authentication error it stays nil
C12_NilVersion ==
    [][(/\ last'.op = "ProcessAuthenticateMessage"
        /\ last'.by = "server"
        /\ last'.err # "panic"
        /\ am.Version = NoVersion) =>
          LET versioned == ProcessAuthenticateMessage(
                               srv, [am EXCEPT !.Version = <<6, 1, 7601, 15>>])
          IN /\ last'.err = versioned.err
             /\ srv' = versioned.n
             /\ last'.err \in {"nil", "Could not authenticate"}
             /\ last'.err = "nil" =>
                   (am'.Version = <<6, 1, 7601, 15>> /\ Ready(srv'))
             /\ last'.err = "Could not authenticate" =>
                   am'.Version = NoVersion]_vars

\* a message without a version was accepted
C12_Witness ==
    /\ last.op = "ProcessAuthenticateMessage"
    /\ last.err = "nil"
    /\ last.given.Version = NoVersion
    /\ am.Version = DefaultVersion
    /\ Ready(srv)

\* GetUserInfo(): user, password, domain, workstation
GetUserInfo(n) == <<n.user, n.password, n.userDomain, n.workstation>>

\* C13: after server ProcessAuthenticateMessage(am), successful or not,
\* GetUserInfo returns am's user name and domain name, the password last
\* given to SetUserInfo and am's workstation, for NTLMv1 and NTLMv2 sessions
C13_IdentityLoaded ==
    [][(last'.op = "ProcessAuthenticateMessage" /\ last'.by = "server") =>
          GetUserInfo(srv') =
              <<am.UserName, srv.password, am.DomainName, am.Workstation>>]_vars

\* C14: an NTLMv2 server ProcessAuthenticateMessage on a message without the
\* NTLMv2 response structure returns an error to its caller: it does not
\* crash and does not authenticate
C14_MalformedMessageError ==
    (/\ last.op = "ProcessAuthenticateMessage"
     /\ ntlmVersion = 2
     /\ ~am.NtlmV2Response.ok) =>
        /\ last.err # "panic"
        /\ last.err # "nil"

\* C15: in every reachable state a session's serverChallenge and
\* clientChallenge, once set, are exactly 8 bytes long
C15_ChallengeLengths ==
    \A n \in {srv, cli} :
        /\ n.serverChallenge # Nil => ByteLen(n.serverChallenge) = 8
        /\ n.clientChallenge # Nil => ByteLen(n.clientChallenge) = 8

\* C16: an NTLMv2 server GenerateChallengeMessage stores an 8-byte random
\* serverChallenge in the session and returns a message with that
\* ServerChallenge, exactly the twelve default flags and version 6.1.7601
\* revision 15; every other session field is unchanged
C16_GenerateChallengeMessage ==
    [][(last'.op = "GenerateChallengeMessage" /\ ntlmVersion = 2) =>
          \E c \in Challenges :
              LET r == V2GenerateChallengeMessage(srv, c)
              IN /\ srv' = r.n
                 /\ last'.ok = r.cm.ok
                 /\ r.cm.ok
                 /\ ByteLen(srv'.serverChallenge) = 8
                 /\ r.cm.ServerChallenge = srv'.serverChallenge
                 /\ r.cm.NegotiateFlags =
                       { "NTLMSSP_NEGOTIATE_KEY_EXCH", "NTLMSSP_NEGOTIATE_VERSION",
                         "NTLMSSP_NEGOTIATE_EXTENDED_SESSIONSECURITY",
                         "NTLMSSP_NEGOTIATE_TARGET_INFO", "NTLMSSP_NEGOTIATE_IDENTIFY",
                         "NTLMSSP_NEGOTIATE_ALWAYS_SIGN", "NTLMSSP_NEGOTIATE_NTLM",
                         "NTLMSSP_NEGOTIATE_DATAGRAM", "NTLMSSP_NEGOTIATE_SIGN",
                         "NTLMSSP_REQUEST_TARGET", "NTLMSSP_NEGOTIATE_UNICODE",
                         "NTLMSSP_NEGOTIATE_128" }
                 /\ r.cm.Version = <<6, 1, 7601, 15>>
                 /\ srv' = [srv EXCEPT !.serverChallenge = srv'.serverChallenge]]_vars

\* an NTLMv2 server that authenticated generated another challenge message
C16_Witness ==
    /\ last.op = "GenerateChallengeMessage"
    /\ ntlmVersion = 2
    /\ last.ok
    /\ srv.serverChallenge \in Challenges
    /\ Ready(srv)

\* the session holds the message object in flight as its cached
\* AUTHENTICATE message
CachesMessage(n) == am.live /\ am.id > 0 /\ n.authenticateMessage = am.id

\* C17: an operation on one session leaves every field of every other
\* session unchanged, the content of its cached messages included, also when
\* the sessions were handed the same message object or challenge slice
C17_SessionsShareNothing ==
    [][/\ last'.by = "server" =>
            /\ other' = other /\ cli' = cli
            /\ CachesMessage(other) => am' = am
       /\ last'.by = "other" =>
            /\ srv' = srv /\ cli' = cli
            /\ CachesMessage(srv) => am' = am
       /\ last'.by = "client" => (srv' = srv /\ other' = other)]_vars

\* Mac of the session named by `by`, of the behaviour's NTLM version
Sign(by, n, message, sequenceNumber) ==
    IF ntlmVersion = 1
    THEN IF by = "server" THEN V1ServerMac(n, message, sequenceNumber)
         ELSE V1ClientMac(n, message, sequenceNumber)
    ELSE IF by = "server" THEN V2ServerMac(n, message, sequenceNumber)
         ELSE V2ClientMac(n, message, sequenceNumber)

\* C18: with DATAGRAM set, the signature Mac returns is computed on a handle
\* built for that call (from the sealing key and seq with extended session
\* security, from the sealing key alone without), so it depends on nothing
\* a Mac / VerifyMac call changes: after every such call on an authenticated
\* session the flags and keys are as before, and Mac with the arguments of
\* the session's last signature returns that signature again; without
\* DATAGRAM the signature is computed on the session's running handle as it
\* stands
C18_DatagramSignatureStable ==
    [][macOps' > macOps =>
        /\ \A by \in {"server", "client"} :
             (/\ last'.by = by
              /\ authed[by]
              /\ IsSet(DATAGRAM, Session(by).NegotiateFlags)) =>
                /\ Session(by)'.NegotiateFlags = Session(by).NegotiateFlags
                /\ DirectionalKeys(Session(by)') = DirectionalKeys(Session(by))
                /\ wire'.by = by =>
                     LET again == Sign(by, Session(by)', wire'.message, wire'.seq)
                     IN ~again.panic /\ again.mac = wire'.mac
        /\ (last'.op = "Mac" /\ last'.ok) =>
             LET n == Session(last'.by)
                 sealingKey == IF last'.by = "server" THEN n.ServerSealingKey
                               ELSE n.ClientSealingKey
                 signingKey == IF last'.by = "server" THEN n.ServerSigningKey
                               ELSE n.ClientSigningKey
                 running == IF last'.by = "server" THEN n.serverHandle
                            ELSE n.clientHandle
                 h == IF ~IsSet(DATAGRAM, n.NegotiateFlags) THEN running
                      ELSE IF IsSet(EXT_SEC, n.NegotiateFlags)
                           THEN reinitSealingKey(sealingKey, wire'.seq)
                           ELSE rc4Init(sealingKey)
             IN wire'.mac = mac(n.NegotiateFlags, h, signingKey, wire'.seq,
                                wire'.message).sig]_vars

\* a datagram-mode Mac on an authenticated session whose signature came off
\* an RC4 handle, after an earlier Mac / VerifyMac call
C18_Witness ==
    /\ last.op = "Mac"
    /\ last.ok
    /\ last.wasAuthed
    /\ macOps = 2
    /\ IsSet(DATAGRAM, Session(last.by).NegotiateFlags)
    /\ ~IsSet(EXT_SEC, Session(last.by).NegotiateFlags)

\* C19: every client GenerateAuthenticateMessage returns a message whose NT
\* response, LM response, encrypted random session key, user, domain,
\* workstation and NegotiateFlags are the session's at that moment, with
\* version 6.1.7601 revision 15 and, for NTLMv2, a Mic of 16 zero bytes; the
\* session is unchanged, and a further call would return an equal message
C19_GenerateAuthenticateMessage ==
    [][am'.id = am.id + 1 =>
        /\ am'.live
        /\ am'.NtChallengeResponseFields = cli.ntChallengeResponse
        /\ am'.LmChallengeResponse = cli.lmChallengeResponse
        /\ am'.EncryptedRandomSessionKey = cli.encryptedRandomSessionKey
        /\ am'.UserName = cli.user
        /\ am'.DomainName = cli.userDomain
        /\ am'.Workstation = cli.workstation
        /\ am'.NegotiateFlags = cli.NegotiateFlags
        /\ am'.Version = <<6, 1, 7601, 15>>
        /\ ntlmVersion = 2 => am'.Mic = zeroBytes(16)
        /\ cli' = cli
        /\ [am' EXCEPT !.id = 0] = ClientMessage(0)']_vars

\* the second message generated by a client that has processed a challenge,
\* as it was returned
C19_Witness ==
    /\ authed.client
    /\ am.id = 2
    /\ am = ClientMessage(2)
    /\ am.NtChallengeResponseFields # Nil
    /\ am.Workstation # ""

\* the handle field a call is passed: serverHandle for the server's Mac and
\* the client's VerifyMac, clientHandle for the other two
HandlePassed(by, op) ==
    IF (by = "server") = (op = "Mac") THEN "serverHandle" ELSE "clientHandle"

\* C20: a Mac or VerifyMac call leaves every field of its session as it was
\* except the stream position of the one handle it was passed, leaves that
\* too when DATAGRAM is set, and leaves the other sessions untouched
C20_MacFrame ==
    [][macOps' > macOps =>
        /\ last'.op \in {"Mac", "VerifyMac"}
        /\ \A by \in {"server", "client"}, op \in {"Mac", "VerifyMac"} :
             (last'.by = by /\ last'.op = op) =>
                LET h == HandlePassed(by, op)
                    n == Session(by)
                    n2 == Session(by)'
                IN /\ [n2 EXCEPT ![h] = [@ EXCEPT !.pos = n[h].pos]] = n
                   /\ n2[h].pos >= n[h].pos
                   /\ IsSet(DATAGRAM, n.NegotiateFlags) => n2 = n
        /\ last'.by = "server" => cli' = cli
        /\ last'.by = "client" => srv' = srv
        /\ other' = other
        /\ am' = am]_vars

\* the one call so far was the client's VerifyMac in connection mode, and it
\* advanced the client's serverHandle and nothing else
C20_Witness ==
    /\ macOps = 1
    /\ last.op = "VerifyMac"
    /\ last.by = "client"
    /\ ~IsSet(DATAGRAM, cli.NegotiateFlags)
    /\ cli.serverHandle.pos > 0
    /\ cli.clientHandle.pos = 0

\* the other side of the pair
Peer(by) == IF by = "server" THEN "client" ELSE "server"

\* bytes of RC4 stream one signature consumes: 8 under extended session
\* security with key exchange, 12 under the legacy form
StreamBytes(flags) == IF IsSet(EXT_SEC, flags) THEN 8 ELSE 12

\* the signature form drives the RC4 handle, and the session's running one
RunningHandleForm(flags) ==
    /\ ~IsSet(DATAGRAM, flags)
    /\ IsSet(EXT_SEC, flags) => IsSet(KEY_EXCH, flags)

\* C21: in connection mode with a signature form that drives the running
\* handle, the peer's VerifyMac of the genuine (m, s, seq) last signed
\* returns true exactly when the peer's handle for that direction stands
\* where the signer's handle stood when it produced s: true for signatures
\* verified once each in the order signed, false for a verification out of
\* order, repeated, or following a failed one on the same handle
C21_ConnectionOrder ==
    [][\A v \in {"server", "client"} :
         (/\ macOps' > macOps
          /\ last'.op = "VerifyMac"
          /\ last'.by = v
          /\ last'.differ = {}
          /\ paired
          /\ wire.by = Peer(v)
          /\ RunningHandleForm(Session(v).NegotiateFlags))
            => LET h == HandlePassed(v, "VerifyMac")
                   signedAt == Session(Peer(v))[h].pos
                                   - StreamBytes(Session(v).NegotiateFlags)
               IN last'.ok <=> (Session(v)[h].pos = signedAt)]_vars

\* the Mic values a message can carry
MicValues == {Nil, zeroBytes(16), FilledMic}

\* C22: the verdict of server ProcessAuthenticateMessage and the session it
\* leaves, the stored mic apart, are those of the same call on the same
\* message carrying any other Mic; the stored mic is the message's Mic or
\* the one stored before, never a value computed from it
C22_MicIndependence ==
    [][(last'.op = "ProcessAuthenticateMessage" /\ last'.by = "server") =>
          /\ \A mv \in MicValues :
                LET alt == ProcessAuthenticateMessage(srv, [am EXCEPT !.Mic = mv])
                IN /\ alt.err = last'.err
                   /\ [alt.n EXCEPT !.mic = srv'.mic] = srv'
                   /\ alt.n.mic \in {mv, srv.mic}
          /\ srv'.mic \in {am.Mic, srv.mic}]_vars

\* an NTLMv2 message with a filled-in Mic and key exchange was accepted and
\* the session keys derived
C22_Witness ==
    /\ ntlmVersion = 2
    /\ last.op = "ProcessAuthenticateMessage"
    /\ last.by = "server"
    /\ last.err = "nil"
    /\ last.given.Mic = FilledMic
    /\ IsSet(KEY_EXCH, srv.NegotiateFlags)
    /\ srv.exportedSessionKey # Nil
    /\ KeysDerived(srv)

\* what a server session can hold in negotiateMessage
StashedMessages == NegotiateMessages \cup {"", "nm2"}

\* C23: server ProcessAuthenticateMessage(am) leaves the session's
\* NegotiateFlags equal to am.NegotiateFlags; its verdict and the session it
\* leaves (response path, LM fallback, key exchange, directional keys and
\* handles) are those of a session that held any other flag word and any
\* other stashed NEGOTIATE message before the call; on success the keys are
\* SIGNKEY / SEALKEY of am's flag word; ProcessNegotiateMessage changes
\* nothing but the stashed message
C23_ClientFlagsDrive ==
    [][/\ (last'.op = "ProcessAuthenticateMessage" /\ last'.by = "server") =>
            /\ srv'.NegotiateFlags = am.NegotiateFlags
            /\ \A f \in FlagWords, nm \in StashedMessages :
                 LET alt == ProcessAuthenticateMessage(
                                [srv EXCEPT !.NegotiateFlags = f,
                                            !.negotiateMessage = nm], am)
                 IN /\ alt.err = last'.err
                    /\ alt.am = am'
                    /\ [alt.n EXCEPT !.negotiateMessage = srv'.negotiateMessage]
                           = srv'
            /\ last'.err = "nil" => KeysDerived(srv')
       /\ srv'.negotiateMessage # srv.negotiateMessage =>
            /\ [srv' EXCEPT !.negotiateMessage = srv.negotiateMessage] = srv
            /\ cli' = cli
            /\ am' = am]_vars

\* a session that had stashed a NEGOTIATE message accepted the client's second
\* message, which carries key exchange and extended session security
C23_Witness ==
    /\ last.op = "ProcessAuthenticateMessage"
    /\ last.by = "server"
    /\ last.err = "nil"
    /\ srv.negotiateMessage # ""
    /\ am.id = 2
    /\ srv.NegotiateFlags = am.NegotiateFlags
    /\ srv.NegotiateFlags = {KEY_EXCH, EXT_SEC}

\* a fresh server session given n's identity, password and server challenge
FreshLike(n) ==
    SetServerChallenge(
        SetUserInfo(NewSession, n.user, n.password, n.userDomain, n.workstation),
        n.serverChallenge)

\* C24: after server ProcessAuthenticateMessage(am) has returned, processing
\* the same message object again on the same session gives the same verdict
\* and the same session, stored mic included; so does processing it on a
\* fresh session with the same password and server challenge, against a
\* first processing on such a fresh session
C24_Idempotent ==
    [][(/\ last'.op = "ProcessAuthenticateMessage"
        /\ last'.by = "server"
        /\ last'.err # "panic") =>
          LET again == ProcessAuthenticateMessage(srv', am')
              first == ProcessAuthenticateMessage(FreshLike(srv), am)
              second == ProcessAuthenticateMessage(FreshLike(srv), first.am)
          IN /\ again.err = last'.err
             /\ again.n = srv'
             /\ second.err = first.err
             /\ second.n = first.n]_vars

====
